---- MODULE Spec2Model ----
(***************************************************************************)
(* Market-data feed simulator (src/app.js): price simulation, candle       *)
(* aggregation, per-subscriber chart synchronisation and the lifecycle of  *)
(* the five periodic producers.                                            *)
(*                                                                         *)
(* Units.  Prices are integers in cents (the code rounds every price to    *)
(* two decimals).  Relative changes are in parts per million.  Trend       *)
(* strength is in 1/10000.  A value returned by Math.random() is an        *)
(* integer r in 0..999 standing for r/1000.  Wall-clock time is in ms.     *)
(***************************************************************************)
EXTENDS Integers, Sequences, FiniteSets, TLC

----------------------------------------------------------------------------
(* Bounds of the model: scaled-down configuration and exploration limits.  *)

\* number of distinct socket ids the transport hands out
MaxClients == 2
\* the wall clock is explored up to StartTime + MaxElapsed
MaxElapsed == 3000
\* CONFIG.CHART_CANDLE_DURATION (ms), scaled down from 5000
CHART_CANDLE_DURATION == 2000
\* CONFIG.CHART_HISTORY_SIZE, scaled down from 100
CHART_HISTORY_SIZE == 2
\* const candlesCount of initializeChartData, scaled down from 60
candlesCount == 2
\* CONFIG.CHART_TICKS_PER_CANDLE, scaled down from 5
CHART_TICKS_PER_CANDLE == 2
\* CONFIG.TOTAL_SYMBOLS, scaled down from 500
TOTAL_SYMBOLS == 1
\* CONFIG.TABLE_ELEMENTS, scaled down from 20
TABLE_ELEMENTS == 1
\* largest capacity tried when the capacity itself is an input
MaxCapacity == 3
\* longest series of generateRealisticPrice calls explored on its own
MaxCalls == 3

\* the largest TABLE_ELEMENTS of the table runs
MaxTableElements == 3

\* the largest count and the largest max passed to getRandomIndices
MaxIndexCount == 4
MaxIndexRange == 4

----------------------------------------------------------------------------
(* Program constants (CONFIG of src/app.js), in the units above.           *)

\* CONFIG.CHART_UPDATE_INTERVAL: 1000 ms
CHART_UPDATE_INTERVAL == 1000
\* CONFIG.CHART_BASE_PRICE: 150, in cents
CHART_BASE_PRICE == 15000
\* CONFIG.CHART_VOLATILITY: 0.003, in ppm
CHART_VOLATILITY == 3000
\* CONFIG.TREND_CHANGE_PROBABILITY: 0.02, in 1/1000
TREND_CHANGE_PROBABILITY == 20
\* CONFIG.STRONG_MOVE_PROBABILITY: 0.05, in 1/1000
STRONG_MOVE_PROBABILITY == 50
\* CONFIG.MEAN_REVERSION_FACTOR: 0.1, in 1/1000
MEAN_REVERSION_FACTOR == 100

Clients == 1..MaxClients

\* the value of a timer variable that holds no timer (null)
NoTimer == 0
\* the value of candleStartTime when it is null
NoTime == 0 - 1
\* the value of currentCandle when it is null
NoCandle == [time |-> NoTime, open |-> 0, high |-> 0, low |-> 0, close |-> 0]
\* the value of homepageData when it is null, and when it is initialised
NoHomepage == "null"
HomepagePayload == "homepage"

Max2(a, b) == IF a >= b THEN a ELSE b
Min2(a, b) == IF a <= b THEN a ELSE b

\* a / b rounded to the nearest integer (b > 0), halves away from zero
RoundDiv(a, b) == IF a >= 0 THEN (2 * a + b) \div (2 * b)
                  ELSE 0 - ((2 * (0 - a) + b) \div (2 * b))

----------------------------------------------------------------------------
(* The random source.  A handler run consumes the values of one tape, in   *)
(* order; which tape it gets is the handler's input.                       *)

Tapes == << <<700, 950, 300>>,
            <<10, 100, 800, 50, 30, 990>>,
            <<400, 500, 600, 15, 900, 0, 999, 700>> >>

Seeds == 1..Len(Tapes)

\* the k-th value Math.random() returns in a handler run fed by tape seed
Rand(seed, k) == Tapes[seed][((k - 1) % Len(Tapes[seed])) + 1]

----------------------------------------------------------------------------
(* Trend regime and price process.                                         *)

\* trends[Math.floor(Math.random() * trends.length)] with trends = [-1, 0, 1]
TrendOf(r) == ((r * 3) \div 1000) - 1

\* Math.random() * 0.5 + 0.3, in 1/10000
StrengthOf(r) == r * 5 + 3000

\* faulty variant: the strength grows by 2%
Decay_Grows(strength) == (strength * 102) \div 100

\* trendStrength *= 0.98
Decay(strength) == (strength * 98) \div 100

\* updateMarketTrend: [trend, strength, k] after the call, k the next draw
updateMarketTrend(trend, strength, seed, k) ==
    IF Rand(seed, k) < TREND_CHANGE_PROBABILITY
    THEN [trend |-> TrendOf(Rand(seed, k + 1)),
          strength |-> Decay(StrengthOf(Rand(seed, k + 2))),
          k |-> k + 3]
    ELSE [trend |-> trend, strength |-> Decay(strength), k |-> k + 1]

\* faulty variant: the result is not clamped
PriceStep_NoClamp(vol, rev, base, last, trend, strength, r, s) ==
    LET random0 == ((2 * r - 1000) * vol) \div 1000
        randomComponent == IF s < STRONG_MOVE_PROBABILITY
                           THEN random0 * 3 ELSE random0
        trendComponent == RoundDiv(trend * strength * vol, 20000)
        meanReversionComponent ==
            0 - RoundDiv((last - base) * ((rev * vol) \div 1000), base)
        totalChange == randomComponent + trendComponent + meanReversionComponent
    IN  last + RoundDiv(last * totalChange, 1000000)

\* faulty variant: the trend component is not scaled by the volatility
PriceStep_TrendUnscaled(vol, rev, base, last, trend, strength, r, s) ==
    LET random0 == ((2 * r - 1000) * vol) \div 1000
        randomComponent == IF s < STRONG_MOVE_PROBABILITY
                           THEN random0 * 3 ELSE random0
        meanReversionComponent ==
            0 - RoundDiv((last - base) * ((rev * vol) \div 1000), base)
        newPrice == last
                    + RoundDiv(last * (randomComponent + meanReversionComponent),
                               1000000)
                    + RoundDiv(last * trend * strength, 20000)
    IN  Max2(base \div 2, Min2(base * 2, newPrice))

\* faulty variant: the reversion term has the sign of the deviation
PriceStep_ReversionAway(vol, rev, base, last, trend, strength, r, s) ==
    LET random0 == ((2 * r - 1000) * vol) \div 1000
        randomComponent == IF s < STRONG_MOVE_PROBABILITY
                           THEN random0 * 3 ELSE random0
        trendComponent == RoundDiv(trend * strength * vol, 20000)
        meanReversionComponent ==
            RoundDiv((last - base) * ((rev * vol) \div 1000), base)
        totalChange == randomComponent + trendComponent + meanReversionComponent
        newPrice == last + RoundDiv(last * totalChange, 1000000)
    IN  Max2(base \div 2, Min2(base * 2, newPrice))

\* the price computed by generateRealisticPrice from its draws, for a given
\* volatility (ppm), reversion factor (1/1000) and base price (cents)
PriceStep(vol, rev, base, last, trend, strength, r, s) ==
    LET random0 == ((2 * r - 1000) * vol) \div 1000
        randomComponent == IF s < STRONG_MOVE_PROBABILITY
                           THEN random0 * 3 ELSE random0
        trendComponent == RoundDiv(trend * strength * vol, 20000)
        meanReversionComponent ==
            0 - RoundDiv((last - base) * ((rev * vol) \div 1000), base)
        totalChange == randomComponent + trendComponent + meanReversionComponent
        newPrice == last + RoundDiv(last * totalChange, 1000000)
    IN  Max2(base \div 2, Min2(base * 2, newPrice))

\* generateRealisticPrice(lastPrice) under a CONFIG with the given
\* CHART_VOLATILITY and MEAN_REVERSION_FACTOR: [price, trend, strength, k]
generateRealisticPriceWith(vol, rev, last, trend, strength, seed, k) ==
    LET t == updateMarketTrend(trend, strength, seed, k)
    IN  [price |-> PriceStep(vol, rev, CHART_BASE_PRICE, last, t.trend,
                             t.strength, Rand(seed, t.k), Rand(seed, t.k + 1)),
         trend |-> t.trend, strength |-> t.strength, k |-> t.k + 2]

\* generateRealisticPrice(lastPrice) under the shipped CONFIG
generateRealisticPrice(last, trend, strength, seed, k) ==
    generateRealisticPriceWith(CHART_VOLATILITY, MEAN_REVERSION_FACTOR,
                               last, trend, strength, seed, k)

----------------------------------------------------------------------------
(* Candle aggregation.  The operators below take and return the record g   *)
(* of the chart globals: chartData, currentCandle, candleStartTime,        *)
(* lastPrice, currentTrend, trendStrength, tickCount.  t is Date.now().    *)

\* faulty variant: the time is counted in tens of seconds
UnixSeconds_TenSeconds(t) == t \div 10000

\* Math.floor(now / 1000)
UnixSeconds(t) == t \div 1000

\* faulty variant: the candle is opened at the base price
initializeCandle_AtBase(g, t) ==
    [g EXCEPT !.candleStartTime = t,
              !.tickCount = 0,
              !.currentCandle = [time |-> UnixSeconds(t),
                                 open |-> CHART_BASE_PRICE,
                                 high |-> CHART_BASE_PRICE,
                                 low |-> CHART_BASE_PRICE,
                                 close |-> CHART_BASE_PRICE]]

\* initializeCandle
initializeCandle(g, t) ==
    [g EXCEPT !.candleStartTime = t,
              !.tickCount = 0,
              !.currentCandle = [time |-> UnixSeconds(t),
                                 open |-> g.lastPrice, high |-> g.lastPrice,
                                 low |-> g.lastPrice, close |-> g.lastPrice]]

\* faulty variant: only close is updated
IngestPrice_CloseOnly(c, price) == [c EXCEPT !.close = price]

\* faulty variant: high is overwritten by the price
IngestPrice_HighIsPrice(c, price) ==
    [c EXCEPT !.close = price,
              !.high = price,
              !.low = Min2(c.low, price)]

\* the three field updates of updateCurrentCandle
IngestPrice(c, price) ==
    [c EXCEPT !.close = price,
              !.high = Max2(c.high, price),
              !.low = Min2(c.low, price)]

\* updateCurrentCandle(price)
updateCurrentCandle(g, price, t) ==
    LET g1 == IF g.currentCandle = NoCandle THEN initializeCandle(g, t) ELSE g
    IN  [g1 EXCEPT !.currentCandle = IngestPrice(g1.currentCandle, price),
                   !.tickCount = g1.tickCount + 1]

\* faulty variant: the comparison is strict
shouldCompleteCandle_Strict(g, t) ==
    (t - g.candleStartTime) > CHART_CANDLE_DURATION

\* shouldCompleteCandle
shouldCompleteCandle(g, t) ==
    (t - g.candleStartTime) >= CHART_CANDLE_DURATION

\* faulty variant: the candle is filed as it is
RepairCandle_None(c) == c

\* the validation and repair of completeCandle
RepairCandle(c) ==
    IF c.high < Max2(c.open, c.close) \/ c.low > Min2(c.open, c.close)
    THEN [c EXCEPT !.high = Max2(Max2(c.open, c.close), c.high),
                   !.low = Min2(Min2(c.open, c.close), c.low)]
    ELSE c

\* faulty variant: the last entry of the history is overwritten
PushCandle_ReplacesLast(history, c, cap) ==
    IF history = << >> THEN << c >>
    ELSE [history EXCEPT ![Len(history)] = c]

\* chartData.push(completedCandle) and the trim to the last cap candles
PushCandle(history, c, cap) ==
    LET pushed == Append(history, c)
    IN  IF Len(pushed) > cap THEN Tail(pushed) ELSE pushed

\* faulty variant: the new candle is opened before lastPrice is set
completeCandle_StaleSeed(g, t, cap) ==
    IF g.currentCandle # NoCandle
    THEN LET c == RepairCandle(g.currentCandle)
             n == initializeCandle(g, t)
         IN  [n EXCEPT !.chartData = PushCandle(g.chartData, c, cap),
                       !.lastPrice = c.close]
    ELSE g

\* completeCandle
completeCandle(g, t, cap) ==
    IF g.currentCandle # NoCandle
    THEN LET c == RepairCandle(g.currentCandle)
         IN  initializeCandle(
                 [g EXCEPT !.currentCandle = c,
                           !.chartData = PushCandle(g.chartData, c, cap),
                           !.lastPrice = c.close],
                 t)
    ELSE g

\* faulty variant: lastPrice is not set to the new price
updateChartData_KeepsLastPrice(g, t, cap, seed) ==
    LET p  == generateRealisticPrice(g.lastPrice, g.currentTrend,
                                     g.trendStrength, seed, 1)
        g1 == [g EXCEPT !.currentTrend = p.trend, !.trendStrength = p.strength]
        g2 == updateCurrentCandle(g1, p.price, t)
    IN  IF shouldCompleteCandle(g2, t) THEN completeCandle(g2, t, cap) ELSE g2

\* faulty variant: the candle is completed at every tick
updateChartData_AlwaysCompletes(g, t, cap, seed) ==
    LET p  == generateRealisticPrice(g.lastPrice, g.currentTrend,
                                     g.trendStrength, seed, 1)
        g1 == [g EXCEPT !.currentTrend = p.trend, !.trendStrength = p.strength]
        g2 == updateCurrentCandle(g1, p.price, t)
        g3 == completeCandle(g2, t, cap)
    IN  [g3 EXCEPT !.lastPrice = p.price]

\* updateChartData
updateChartData(g, t, cap, seed) ==
    LET p  == generateRealisticPrice(g.lastPrice, g.currentTrend,
                                     g.trendStrength, seed, 1)
        g1 == [g EXCEPT !.currentTrend = p.trend, !.trendStrength = p.strength]
        g2 == updateCurrentCandle(g1, p.price, t)
        g3 == IF shouldCompleteCandle(g2, t) THEN completeCandle(g2, t, cap)
              ELSE g2
    IN  [g3 EXCEPT !.lastPrice = p.price]

----------------------------------------------------------------------------
(* Bootstrap of the history (initializeChartData).                         *)

\* Math.random() > 0.5 ? 1 : -1
DirectionOf(r) == IF r > 500 THEN 1 ELSE 0 - 1

\* the inner loop: n more ticks of one historical candle;
\* a = [close, high, low, trend, strength, k]
RECURSIVE BootTicks(_, _, _)
BootTicks(n, a, seed) ==
    IF n = 0 THEN a
    ELSE LET p == generateRealisticPrice(a.close, a.trend, a.strength, seed, a.k)
         IN  BootTicks(n - 1,
                       [close |-> p.price,
                        high |-> Max2(a.high, p.price),
                        low |-> Min2(a.low, p.price),
                        trend |-> p.trend, strength |-> p.strength,
                        k |-> p.k],
                       seed)

\* faulty variant: the wick is applied inwards
BootstrapCandle_WickInward(candleTime, open, high, low, close, rHigh, rLow) ==
    [time |-> candleTime,
     open |-> open,
     high |-> high - RoundDiv((high - low) * rHigh, 10000),
     low |-> low + RoundDiv((high - low) * rLow, 10000),
     close |-> close]

\* the wick and the candle pushed for one historical candle
BootstrapCandle(candleTime, open, high, low, close, rHigh, rLow) ==
    [time |-> candleTime,
     open |-> open,
     high |-> high + RoundDiv((high - low) * rHigh, 10000),
     low |-> low - RoundDiv((high - low) * rLow, 10000),
     close |-> close]

\* the outer loop, i = candlesCount down to 1;
\* b = [chartData, price, trend, strength, k]
RECURSIVE BootCandles(_, _, _, _)
BootCandles(i, b, t, seed) ==
    IF i = 0 THEN b
    ELSE LET a == BootTicks(CHART_TICKS_PER_CANDLE,
                            [close |-> b.price, high |-> b.price,
                             low |-> b.price, trend |-> b.trend,
                             strength |-> b.strength, k |-> b.k],
                            seed)
             c == BootstrapCandle(UnixSeconds(t - i * CHART_CANDLE_DURATION),
                                  b.price, a.high, a.low, a.close,
                                  Rand(seed, a.k), Rand(seed, a.k + 1))
             change == Rand(seed, a.k + 2) < 100
         IN  BootCandles(i - 1,
                 [chartData |-> Append(b.chartData, c),
                  price |-> a.close,
                  trend |-> IF change THEN DirectionOf(Rand(seed, a.k + 3))
                            ELSE a.trend,
                  strength |-> IF change THEN StrengthOf(Rand(seed, a.k + 4))
                               ELSE a.strength,
                  k |-> IF change THEN a.k + 5 ELSE a.k + 3],
                 t, seed)

\* faulty variant: no candle is opened after the historical ones
initializeChartData_NoOpenCandle(g, t, seed) ==
    LET b == BootCandles(candlesCount,
                         [chartData |-> << >>,
                          price |-> CHART_BASE_PRICE,
                          trend |-> DirectionOf(Rand(seed, 1)),
                          strength |-> StrengthOf(Rand(seed, 2)),
                          k |-> 3],
                         t, seed)
    IN  [g EXCEPT !.chartData = b.chartData,
                  !.currentTrend = b.trend,
                  !.trendStrength = b.strength,
                  !.lastPrice = b.price]

\* initializeChartData
initializeChartData(g, t, seed) ==
    LET b == BootCandles(candlesCount,
                         [chartData |-> << >>,
                          price |-> CHART_BASE_PRICE,
                          trend |-> DirectionOf(Rand(seed, 1)),
                          strength |-> StrengthOf(Rand(seed, 2)),
                          k |-> 3],
                         t, seed)
    IN  initializeCandle(
            [g EXCEPT !.chartData = b.chartData,
                      !.currentTrend = b.trend,
                      !.trendStrength = b.strength,
                      !.lastPrice = b.price],
            t)

\* faulty variant: the in-progress candle is put first
FullChart_CandleFirst(history, candle) ==
    IF candle # NoCandle THEN << candle >> \o history ELSE history

\* the candle sequence built by sendInitialChartData and by GET /chart
FullChart(history, candle) ==
    IF candle # NoCandle THEN Append(history, candle) ELSE history

----------------------------------------------------------------------------
(* State.                                                                  *)

VARIABLES
    historySize,            \* CONFIG.CHART_HISTORY_SIZE of this run
    now,                    \* Date.now() as last read by a handler
    chartData, currentCandle, candleStartTime, lastPrice,
    currentTrend, trendStrength, tickCount,
    stockSymbols, tableElements, tableUpdateQueue, homepageData,
    tableSent,              \* the element the last table_update carried
                            \* (0: none since the queue was created)
    stockUpdateInterval, broadcastInterval, tableUpdateInterval,
    homepageUpdateInterval, chartUpdateInterval,
    timers,                 \* the interval timers alive in the event loop
    connectedClients,
    sockets,                \* io.sockets.sockets: ids of the open sockets
    clientChartStatus,      \* Map: socket id -> true
    closing,                \* a shutdown signal has been handled
    event,                  \* the last handler of the chart channel
                            \* (connection, disconnect, get_chart, chart
                            \* timer, signal) and the state it started in
    outbox,                 \* per socket, the chart_update messages that
                            \* handler emitted
    delivered,              \* per socket, chart_update messages emitted
                            \* to it before that handler ran (2 = 2 or more)
    response,               \* the body of the answer to the last GET /chart,
                            \* when that request was the last handler
    priceRun,               \* the series of generateRealisticPrice calls made
                            \* outside the server: its volatility, reversion
                            \* factor, first input and number of calls, and
                            \* the tape and position the last call drew from
    indexRun                \* a call of getRandomIndices made outside the
                            \* server: its count and max, the Set built so
                            \* far and whether it has returned

chartVars == <<chartData, currentCandle, candleStartTime, lastPrice,
               currentTrend, trendStrength, tickCount>>
dataVars == <<stockSymbols, tableElements, tableUpdateQueue, homepageData,
              tableSent>>
timerVars == <<stockUpdateInterval, broadcastInterval, tableUpdateInterval,
               homepageUpdateInterval, chartUpdateInterval, timers>>
clientVars == <<connectedClients, sockets, clientChartStatus>>
vars == <<historySize, now, chartVars, dataVars, timerVars, clientVars,
          closing, event, outbox, delivered, response, priceRun, indexRun>>

\* the chart globals as one record
Chart ==
    [chartData |-> chartData, currentCandle |-> currentCandle,
     candleStartTime |-> candleStartTime, lastPrice |-> lastPrice,
     currentTrend |-> currentTrend, trendStrength |-> trendStrength,
     tickCount |-> tickCount]

SetChart(g) ==
    /\ chartData' = g.chartData
    /\ currentCandle' = g.currentCandle
    /\ candleStartTime' = g.candleStartTime
    /\ lastPrice' = g.lastPrice
    /\ currentTrend' = g.currentTrend
    /\ trendStrength' = g.trendStrength
    /\ tickCount' = g.tickCount

StartTime == (candlesCount + 2) * CHART_CANDLE_DURATION
MaxTime == StartTime + MaxElapsed

\* how long the process may sit idle before the next first connection (ms)
IdleGaps == {0, 1500}

----------------------------------------------------------------------------
(* Messages.                                                               *)

Msg(name, payload) == [event |-> name, data |-> payload]

NoMessages == [c \in Clients |-> << >>]

\* delivered, once the messages of the previous handler are counted in
Counted ==
    [c \in Clients |-> Min2(2, delivered[c] + Len(outbox[c]))]

\* what a handler records about the state it started in
Seen(kind, c) ==
    [kind |-> kind, client |-> c, clients |-> connectedClients,
     flagged |-> {s \in DOMAIN clientChartStatus : clientChartStatus[s]},
     lost |-> 0]

\* the value of response when the last handler was not GET /chart
NoResponse == [count |-> 0 - 1, data |-> << >>, currentPrice |-> 0]

\* the value of priceRun in the server, where no such series is made
NoRun == [volatility |-> CHART_VOLATILITY, reversion |-> MEAN_REVERSION_FACTOR,
          input |-> CHART_BASE_PRICE, calls |-> 0, seed |-> 0, k |-> 0]

\* the value of indexRun in the server, where no such call is followed
NoIndexRun == [count |-> 0, max |-> 0, indices |-> {}, done |-> TRUE]

----------------------------------------------------------------------------
(* Timers.                                                                 *)

Producers == {"stock", "broadcast", "table", "homepage", "chart"}

\* the identity of the timer a setInterval for producer fn creates: one
\* that no timer of T has
FreshId(fn, T) ==
    CHOOSE i \in 1..(Cardinality(T) + 1) :
        /\ [fn |-> fn, id |-> i] \notin T
        /\ \A j \in 1..(i - 1) : [fn |-> fn, id |-> j] \in T

\* start<Producer>Updates: clear the timer the variable holds, set a new one
StartTimer(handle, fn, T) ==
    LET T1 == IF handle # NoTimer THEN T \ {[fn |-> fn, id |-> handle]} ELSE T
        id == FreshId(fn, T)
    IN  [handle |-> id, timers |-> T1 \cup {[fn |-> fn, id |-> id]}]

\* faulty variant: the variable is nulled without clearInterval
StopTimer_NoClear(handle, fn, T) ==
    [handle |-> NoTimer, timers |-> T]

\* stop<Producer>Updates: clear the timer the variable holds and null it
StopTimer(handle, fn, T) ==
    IF handle # NoTimer
    THEN [handle |-> NoTimer, timers |-> T \ {[fn |-> fn, id |-> handle]}]
    ELSE [handle |-> handle, timers |-> T]

\* the five start calls of startAllUpdates
StartAllTimers ==
    LET a == StartTimer(stockUpdateInterval, "stock", timers)
        b == StartTimer(broadcastInterval, "broadcast", a.timers)
        c == StartTimer(tableUpdateInterval, "table", b.timers)
        d == StartTimer(homepageUpdateInterval, "homepage", c.timers)
        e == StartTimer(chartUpdateInterval, "chart", d.timers)
    IN  /\ stockUpdateInterval' = a.handle
        /\ broadcastInterval' = b.handle
        /\ tableUpdateInterval' = c.handle
        /\ homepageUpdateInterval' = d.handle
        /\ chartUpdateInterval' = e.handle
        /\ timers' = e.timers

\* faulty variant: stopChartUpdates is not called
stopAllUpdates_SkipsChart ==
    LET a == StopTimer(stockUpdateInterval, "stock", timers)
        b == StopTimer(broadcastInterval, "broadcast", a.timers)
        c == StopTimer(tableUpdateInterval, "table", b.timers)
        d == StopTimer(homepageUpdateInterval, "homepage", c.timers)
    IN  /\ stockUpdateInterval' = a.handle
        /\ broadcastInterval' = b.handle
        /\ tableUpdateInterval' = c.handle
        /\ homepageUpdateInterval' = d.handle
        /\ chartUpdateInterval' = chartUpdateInterval
        /\ timers' = d.timers

\* stopAllUpdates
stopAllUpdates ==
    LET a == StopTimer(stockUpdateInterval, "stock", timers)
        b == StopTimer(broadcastInterval, "broadcast", a.timers)
        c == StopTimer(tableUpdateInterval, "table", b.timers)
        d == StopTimer(homepageUpdateInterval, "homepage", c.timers)
        e == StopTimer(chartUpdateInterval, "chart", d.timers)
    IN  /\ stockUpdateInterval' = a.handle
        /\ broadcastInterval' = b.handle
        /\ tableUpdateInterval' = c.handle
        /\ homepageUpdateInterval' = d.handle
        /\ chartUpdateInterval' = e.handle
        /\ timers' = e.timers

----------------------------------------------------------------------------
(* Data of the other producers.  A stock and a table element are modelled  *)
(* by their index, the homepage payload by a token: their random contents  *)
(* play no part in what is stated here.                                    *)

\* initializeStocks
initializeStocks == [i \in 1..TOTAL_SYMBOLS |-> i]

\* initializeTableElements: tableElements; the queue is a copy of it
initializeTableElements == [i \in 1..TABLE_ELEMENTS |-> i]

\* the data initialisation of startAllUpdates, t = Date.now()
InitializeData(t, seed) ==
    /\ stockSymbols' = IF Len(stockSymbols) = 0 THEN initializeStocks
                       ELSE stockSymbols
    /\ tableElements' = IF Len(tableElements) = 0 THEN initializeTableElements
                        ELSE tableElements
    /\ tableUpdateQueue' = IF Len(tableElements) = 0 THEN initializeTableElements
                           ELSE tableUpdateQueue
    /\ tableSent' = IF Len(tableElements) = 0 THEN 0 ELSE tableSent
    /\ homepageData' = IF homepageData = NoHomepage THEN HomepagePayload
                       ELSE homepageData
    /\ SetChart(IF Len(chartData) = 0 THEN initializeChartData(Chart, t, seed)
                ELSE Chart)

\* startAllUpdates
startAllUpdates(t, seed) ==
    /\ InitializeData(t, seed)
    /\ StartAllTimers

\* faulty variant: chartData is not reset
ClearedChart_KeepsHistory ==
    [chartData |-> chartData, currentCandle |-> NoCandle,
     candleStartTime |-> NoTime, lastPrice |-> CHART_BASE_PRICE,
     currentTrend |-> 0, trendStrength |-> 0, tickCount |-> 0]

\* the chart globals after clearChartData
ClearedChart ==
    [chartData |-> << >>, currentCandle |-> NoCandle,
     candleStartTime |-> NoTime, lastPrice |-> CHART_BASE_PRICE,
     currentTrend |-> 0, trendStrength |-> 0, tickCount |-> 0]

\* clearChartData, without its clientChartStatus.clear()
clearChartData == SetChart(ClearedChart)

\* clearAllData, without the clientChartStatus.clear() of clearChartData
clearAllData ==
    /\ stockSymbols' = << >>
    /\ tableElements' = << >>
    /\ tableUpdateQueue' = << >>
    /\ tableSent' = 0
    /\ homepageData' = NoHomepage
    /\ clearChartData

----------------------------------------------------------------------------
(* Subscriber synchronisation.                                             *)

NoStatus == [s \in {} |-> TRUE]

\* faulty variant: no record is made
SetStatus_None(status, id) == status

\* clientChartStatus.set(id, true)
SetStatus(status, id) == [s \in DOMAIN status \cup {id} |-> TRUE]

\* faulty variant: the record is not deleted
DeleteStatus_Keep(status, id) == status

\* clientChartStatus.delete(id)
DeleteStatus(status, id) == [s \in DOMAIN status \ {id} |-> status[s]]

\* clientChartStatus.get(id), undefined read as false
GetStatus(status, id) == id \in DOMAIN status /\ status[id]

\* the message emitted by sendInitialChartData
sendInitialChartData(history, candle) ==
    Msg("chart_update", FullChart(history, candle))

\* faulty variant: the flag is ignored and every socket gets the full chart
ChartUpdateFor_AlwaysFull(flagged, history, candle) ==
    sendInitialChartData(history, candle)

\* the message broadcastChartUpdate emits to a socket, flagged or not
ChartUpdateFor(flagged, history, candle) ==
    IF flagged THEN Msg("chart_update", << candle >>)
    ELSE sendInitialChartData(history, candle)

\* faulty variant: the call raises when the transport of the socket has
\* closed
Emit_RaisesWhenLost(c, lost, m) ==
    [sent |-> IF c = lost THEN << >> ELSE << m >>, raised |-> c = lost]

\* socket.emit(name, payload) on socket c: the message handed to the socket
\* and whether the call raised.  lost is the socket whose transport has
\* closed before its disconnect handler ran (0: none); what it is handed is
\* dropped by the transport, and the call returns as for any other socket.
Emit(c, lost, m) == [sent |-> << m >>, raised |-> FALSE]

\* io.sockets.sockets.forEach of broadcastChartUpdate over the sockets todo,
\* here in the order of their ids; out collects the messages per socket
RECURSIVE ForEachSocket(_, _, _, _, _)
ForEachSocket(todo, g, status, lost, out) ==
    IF todo = {} THEN out
    ELSE LET c == CHOOSE x \in todo : \A y \in todo : x <= y
             e == Emit(c, lost, ChartUpdateFor(GetStatus(status, c),
                                               g.chartData, g.currentCandle))
         IN  IF e.raised THEN [out EXCEPT ![c] = e.sent]
             ELSE ForEachSocket(todo \ {c}, g, status, lost,
                                [out EXCEPT ![c] = e.sent])

\* faulty variant: the broadcast runs before updateChartData
broadcastChartUpdate_BeforeUpdate(g, status, lost) ==
    IF currentCandle = NoCandle THEN NoMessages
    ELSE ForEachSocket(sockets, Chart, status, lost, NoMessages)

\* broadcastChartUpdate: the messages per socket, given the chart globals
broadcastChartUpdate(g, status, lost) ==
    IF g.currentCandle = NoCandle THEN NoMessages
    ELSE ForEachSocket(sockets, g, status, lost, NoMessages)

\* faulty variant: the in-progress candle is left out
ChartResponse_HistoryOnly(history, candle, price) ==
    [count |-> Len(history), data |-> history, currentPrice |-> price]

\* the body GET /chart answers with: count, data and currentPrice
ChartResponse(history, candle, price) ==
    LET chartDataToSend == IF candle # NoCandle THEN history \o << candle >>
                           ELSE history
    IN  [count |-> Len(chartDataToSend), data |-> chartDataToSend,
         currentPrice |-> price]

\* faulty variant: the fallback branch does not set the flag
StatusAfterBroadcast_NoSet(g, status) == status

\* clientChartStatus after broadcastChartUpdate
StatusAfterBroadcast(g, status) ==
    IF g.currentCandle = NoCandle THEN status
    ELSE [s \in DOMAIN status \cup sockets |-> TRUE]

----------------------------------------------------------------------------
(* Handlers.                                                               *)

\* the globals the price process reads and writes, as declared
InitPriceState ==
    /\ lastPrice = CHART_BASE_PRICE
    /\ currentTrend = 0
    /\ trendStrength = 0

\* the other globals, as declared
InitOther ==
    /\ now = StartTime
    /\ chartData = << >>
    /\ currentCandle = NoCandle
    /\ candleStartTime = NoTime
    /\ tickCount = 0
    /\ stockSymbols = << >>
    /\ tableElements = << >>
    /\ tableUpdateQueue = << >>
    /\ tableSent = 0
    /\ homepageData = NoHomepage
    /\ stockUpdateInterval = NoTimer
    /\ broadcastInterval = NoTimer
    /\ tableUpdateInterval = NoTimer
    /\ homepageUpdateInterval = NoTimer
    /\ chartUpdateInterval = NoTimer
    /\ timers = {}
    /\ connectedClients = 0
    /\ sockets = {}
    /\ clientChartStatus = NoStatus
    /\ closing = FALSE
    /\ event = [kind |-> "start", client |-> 0, clients |-> 0, flagged |-> {},
                lost |-> 0]
    /\ outbox = NoMessages
    /\ delivered = [c \in Clients |-> 0]
    /\ response = NoResponse

Init0 == InitPriceState /\ InitOther

Init ==
    /\ historySize = CHART_HISTORY_SIZE
    /\ priceRun = NoRun
    /\ indexRun = NoIndexRun
    /\ Init0

\* the same program started with any capacity up to MaxCapacity
InitCfg ==
    /\ historySize \in 1..MaxCapacity
    /\ priceRun = NoRun
    /\ indexRun = NoIndexRun
    /\ Init0

\* faulty variant: every connection counts as the first
IsFirstClient_Any(n) == n >= 1

\* if (connectedClients === 1), after the increment
IsFirstClient(n) == n = 1

\* faulty variant: no disconnect counts as the last
IsLastClient_Never(n) == FALSE

\* faulty variant: every disconnect counts as the last
IsLastClient_Always(n) == TRUE

\* if (connectedClients === 0), after the decrement
IsLastClient(n) == n = 0

\* io.on('connection'): socket c connects; when it is the first one, gap ms
\* after the last clock reading, with the draws of tape seed
Connection(c, gap, seed) ==
    LET first == IsFirstClient(connectedClients + 1)
        t == now + gap
    IN  /\ ~closing
        /\ c \notin sockets
        /\ connectedClients = 0 \/ (gap = 0 /\ seed = 1)
        /\ t <= MaxTime
        /\ now' = t
        /\ connectedClients' = connectedClients + 1
        /\ IF first THEN startAllUpdates(t, seed)
           ELSE UNCHANGED <<chartVars, dataVars, timerVars>>
        /\ sockets' = sockets \cup {c}
        /\ clientChartStatus' = SetStatus(clientChartStatus, c)
        /\ outbox' = [NoMessages EXCEPT ![c] =
                        << sendInitialChartData(chartData', currentCandle') >>]
        /\ delivered' = [Counted EXCEPT ![c] = 0]
        /\ event' = Seen("connection", c)
        /\ response' = NoResponse
        /\ UNCHANGED <<historySize, closing, priceRun, indexRun>>

\* socket.on('disconnect')
Disconnect(c) ==
    /\ c \in sockets
    /\ connectedClients' = connectedClients - 1
    /\ sockets' = sockets \ {c}
    /\ IF IsLastClient(connectedClients - 1)
       THEN /\ stopAllUpdates
            /\ clearAllData
            /\ clientChartStatus' = NoStatus
       ELSE /\ clientChartStatus' = DeleteStatus(clientChartStatus, c)
            /\ UNCHANGED <<chartVars, dataVars, timerVars>>
    /\ outbox' = NoMessages
    /\ delivered' = [Counted EXCEPT ![c] = 0]
    /\ event' = Seen("disconnect", c)
    /\ response' = NoResponse
    /\ UNCHANGED <<historySize, now, closing, priceRun, indexRun>>

\* socket.on('get_chart')
GetChart(c) ==
    /\ c \in sockets
    /\ outbox' = [NoMessages EXCEPT ![c] =
                    << sendInitialChartData(chartData, currentCandle) >>]
    /\ clientChartStatus' = SetStatus(clientChartStatus, c)
    /\ delivered' = Counted
    /\ event' = Seen("get_chart", c)
    /\ response' = NoResponse
    /\ UNCHANGED <<historySize, now, chartVars, dataVars, timerVars,
                   connectedClients, sockets, closing, priceRun, indexRun>>

\* how late after its period the chart timer may fire (ms)
TimerJitters == {0, 300}

\* the sockets whose transport is let close before their disconnect handler
\* runs
Lossy == {1}

\* the callback of the chart timer: updateChartData(); broadcastChartUpdate();
\* lost is the socket whose transport has closed by then (0: none)
ChartTick(seed, jitter, lost) ==
    LET t == now + CHART_UPDATE_INTERVAL + jitter
        g == updateChartData(Chart, t, historySize, seed)
    IN  /\ \E tm \in timers : tm.fn = "chart"
        /\ t <= MaxTime
        /\ now' = t
        /\ SetChart(g)
        /\ outbox' = broadcastChartUpdate(g, clientChartStatus, lost)
        /\ clientChartStatus' = StatusAfterBroadcast(g, clientChartStatus)
        /\ delivered' = Counted
        /\ event' = [Seen("chart", 0) EXCEPT !.lost = lost]
        /\ response' = NoResponse
        /\ UNCHANGED <<historySize, dataVars, timerVars, connectedClients,
                       sockets, closing, priceRun, indexRun>>

\* app.get('/chart')
HttpChart ==
    /\ ~closing
    /\ response' = ChartResponse(chartData, currentCandle, lastPrice)
    /\ outbox' = NoMessages
    /\ delivered' = Counted
    /\ event' = Seen("http_chart", 0)
    /\ UNCHANGED <<historySize, now, chartVars, dataVars, timerVars,
                   clientVars, closing, priceRun, indexRun>>

\* the callback of the stock timer: getRandomIndices and updateStockPrices
\* change the prices of some stocks, which are not modelled
StockTick ==
    /\ \E tm \in timers : tm.fn = "stock"
    /\ UNCHANGED vars

\* the callback of the broadcast timer: io.emit('stock_update', stockSymbols)
BroadcastTick ==
    /\ \E tm \in timers : tm.fn = "broadcast"
    /\ UNCHANGED vars

\* what shift() returns on an empty array
Undefined == 0 - 1

\* faulty variant: an empty queue is not refilled
TableQueue_NoRefill(queue, elements) == queue

\* the queue the table callback shifts: refilled from tableElements when it
\* is empty (the refill redraws an element's values and keeps its index)
TableQueue(queue, elements) ==
    IF Len(queue) = 0 THEN elements ELSE queue

\* the callback of the table timer: the queue is refilled from tableElements
\* when empty, and its first element is shifted out and emitted
TableTick ==
    LET queue == TableQueue(tableUpdateQueue, tableElements)
    IN  /\ \E tm \in timers : tm.fn = "table"
        /\ tableUpdateQueue' = IF Len(queue) = 0 THEN queue ELSE Tail(queue)
        /\ tableSent' = IF Len(queue) = 0 THEN Undefined ELSE Head(queue)
        /\ UNCHANGED <<historySize, now, chartVars, stockSymbols, tableElements,
                       homepageData, timerVars, clientVars, closing, event,
                       outbox, delivered, response, priceRun, indexRun>>

\* the callback of the homepage timer: updateHomepageData and
\* io.emit('homepage_updates', homepageData)
HomepageTick ==
    /\ \E tm \in timers : tm.fn = "homepage"
    /\ UNCHANGED vars

\* process.on('SIGTERM') and process.on('SIGINT'): the producers stop and
\* the server stops accepting connections
Shutdown ==
    /\ ~closing
    /\ closing' = TRUE
    /\ stopAllUpdates
    /\ outbox' = NoMessages
    /\ delivered' = Counted
    /\ event' = Seen("signal", 0)
    /\ response' = NoResponse
    /\ UNCHANGED <<historySize, now, chartVars, dataVars, clientVars, priceRun, indexRun>>

Next ==
    \/ \E c \in Clients, gap \in IdleGaps, seed \in Seeds :
           Connection(c, gap, seed)
    \/ \E c \in Clients : Disconnect(c)
    \/ \E c \in Clients : GetChart(c)
    \/ \E seed \in Seeds, jitter \in TimerJitters :
           \E lost \in (sockets \cap Lossy) \cup {0} :
               ChartTick(seed, jitter, lost)
    \/ HttpChart
    \/ StockTick
    \/ BroadcastTick
    \/ TableTick
    \/ HomepageTick
    \/ Shutdown

Spec == Init /\ [][Next]_vars

SpecCfg == InitCfg /\ [][Next]_vars

----------------------------------------------------------------------------
(* generateRealisticPrice on its own: a series of calls, each on the       *)
(* result of the one before, from any input price and trend state, under   *)
(* the shipped CONFIG and under one with no volatility and no reversion.   *)

\* input prices (cents): below, at and above the clamp limits
PriceInputs == {0 - 5000, 1, 7499, 7500, 15000, 30000, 30001, 60000}

\* [volatility (ppm), reversion factor (1/1000)]
PriceConfigs == {[volatility |-> CHART_VOLATILITY,
                  reversion |-> MEAN_REVERSION_FACTOR],
                 [volatility |-> 0, reversion |-> 0]}

InitPrice ==
    /\ historySize = CHART_HISTORY_SIZE
    /\ lastPrice \in PriceInputs
    /\ currentTrend \in {0 - 1, 0, 1}
    /\ trendStrength \in {0, 8000}
    /\ \E cfg \in PriceConfigs :
           priceRun = [volatility |-> cfg.volatility,
                       reversion |-> cfg.reversion,
                       input |-> lastPrice, calls |-> 0, seed |-> 0, k |-> 0]
    /\ indexRun = NoIndexRun
    /\ InitOther

\* lastPrice = generateRealisticPrice(lastPrice), with the draws of tape seed
\* from its k-th on
PriceCall(seed, k) ==
    LET p == generateRealisticPriceWith(priceRun.volatility, priceRun.reversion,
                                        lastPrice, currentTrend, trendStrength,
                                        seed, k)
    IN  /\ priceRun.calls < MaxCalls
        /\ lastPrice' = p.price
        /\ currentTrend' = p.trend
        /\ trendStrength' = p.strength
        /\ priceRun' = [priceRun EXCEPT !.calls = @ + 1, !.seed = seed, !.k = k]
        /\ UNCHANGED <<historySize, now, chartData, currentCandle,
                       candleStartTime, tickCount, dataVars, timerVars,
                       clientVars, closing, event, outbox, delivered, response,
                       indexRun>>

NextPrice ==
    \E seed \in Seeds : \E k \in 1..Len(Tapes[seed]) : PriceCall(seed, k)

SpecPrice == InitPrice /\ [][NextPrice]_vars

----------------------------------------------------------------------------
(* updateCurrentCandle and completeCandle as functions of the chart        *)
(* globals: a series of calls on an open candle, a broken one or none.     *)

\* currentCandle before the first call: none, a flat one, a ranged one, and
\* three whose high or low is on the wrong side of open or close
CandleInputs ==
    {NoCandle,
     [time |-> 8, open |-> 15000, high |-> 15000, low |-> 15000, close |-> 15000],
     [time |-> 8, open |-> 15000, high |-> 15100, low |-> 14900, close |-> 15050],
     [time |-> 8, open |-> 15000, high |-> 15020, low |-> 14900, close |-> 15050],
     [time |-> 8, open |-> 15000, high |-> 15100, low |-> 15010, close |-> 14950],
     [time |-> 8, open |-> 15050, high |-> 15000, low |-> 15020, close |-> 14990]}

\* the prices ingested (cents)
CandlePrices == {14800, 15000, 15050, 15200}

InitCandle ==
    /\ historySize = CHART_HISTORY_SIZE
    /\ now = StartTime
    /\ chartData \in {<< >>,
                      << [time |-> 6, open |-> 14950, high |-> 15010,
                          low |-> 14940, close |-> 15000] >>}
    /\ currentCandle \in CandleInputs
    /\ candleStartTime = IF currentCandle = NoCandle THEN NoTime ELSE StartTime
    /\ lastPrice \in {15000, 15100}
    /\ currentTrend = 0
    /\ trendStrength = 0
    /\ tickCount = 0
    /\ stockSymbols = << >>
    /\ tableElements = << >>
    /\ tableUpdateQueue = << >>
    /\ tableSent = 0
    /\ homepageData = NoHomepage
    /\ stockUpdateInterval = NoTimer
    /\ broadcastInterval = NoTimer
    /\ tableUpdateInterval = NoTimer
    /\ homepageUpdateInterval = NoTimer
    /\ chartUpdateInterval = NoTimer
    /\ timers = {}
    /\ connectedClients = 0
    /\ sockets = {}
    /\ clientChartStatus = NoStatus
    /\ closing = FALSE
    /\ event = [kind |-> "start", client |-> 0, clients |-> 0, flagged |-> {},
                lost |-> 0]
    /\ outbox = NoMessages
    /\ delivered = [c \in Clients |-> 0]
    /\ response = NoResponse
    /\ priceRun = [NoRun EXCEPT !.input = lastPrice]
    /\ indexRun = NoIndexRun

\* updateCurrentCandle(p); priceRun.input keeps the price passed
IngestTick(p) ==
    /\ priceRun.calls < MaxCalls
    /\ SetChart(updateCurrentCandle(Chart, p, now))
    /\ priceRun' = [priceRun EXCEPT !.calls = @ + 1, !.input = p]
    /\ event' = Seen("ingest", 0)
    /\ UNCHANGED <<historySize, now, dataVars, timerVars, clientVars, closing,
                   outbox, delivered, response, indexRun>>

\* completeCandle(), CHART_CANDLE_DURATION after the last clock reading
Complete ==
    /\ priceRun.calls < MaxCalls
    /\ currentCandle # NoCandle
    /\ now' = now + CHART_CANDLE_DURATION
    /\ SetChart(completeCandle(Chart, now', historySize))
    /\ priceRun' = [priceRun EXCEPT !.calls = @ + 1]
    /\ event' = Seen("complete", 0)
    /\ UNCHANGED <<historySize, dataVars, timerVars, clientVars, closing,
                   outbox, delivered, response, indexRun>>

NextCandle ==
    \/ \E p \in CandlePrices : IngestTick(p)
    \/ Complete

SpecCandle == InitCandle /\ [][NextCandle]_vars

----------------------------------------------------------------------------
(* broadcastChartUpdate as a function of the registry: the producers are   *)
(* started for sockets of which any part has a flag in the registry.       *)

InitFallback ==
    /\ historySize = CHART_HISTORY_SIZE
    /\ priceRun = NoRun
    /\ indexRun = NoIndexRun
    /\ InitPriceState
    /\ now = StartTime
    /\ chartData = << >>
    /\ currentCandle = NoCandle
    /\ candleStartTime = NoTime
    /\ tickCount = 0
    /\ stockSymbols = << >>
    /\ tableElements = << >>
    /\ tableUpdateQueue = << >>
    /\ tableSent = 0
    /\ homepageData = NoHomepage
    /\ stockUpdateInterval = NoTimer
    /\ broadcastInterval = NoTimer
    /\ tableUpdateInterval = NoTimer
    /\ homepageUpdateInterval = NoTimer
    /\ chartUpdateInterval = NoTimer
    /\ timers = {}
    /\ sockets \in (SUBSET Clients) \ {{}}
    /\ connectedClients = Cardinality(sockets)
    /\ \E F \in SUBSET sockets : clientChartStatus = [s \in F |-> TRUE]
    /\ closing = FALSE
    /\ event = [kind |-> "start", client |-> 0, clients |-> 0, flagged |-> {},
                lost |-> 0]
    /\ outbox = NoMessages
    /\ delivered = [c \in Clients |-> 0]
    /\ response = NoResponse

\* startAllUpdates() on its own, for the sockets that are there
StartUpdates(seed) ==
    /\ timers = {}
    /\ sockets # {}
    /\ chartData = << >>
    /\ startAllUpdates(now, seed)
    /\ event' = Seen("start_updates", 0)
    /\ UNCHANGED <<historySize, now, clientVars, closing, outbox, delivered,
                   response, priceRun, indexRun>>

\* the producers are started, then the chart timer fires over and over
NextFallback ==
    \/ \E seed \in Seeds : StartUpdates(seed)
    \/ \E seed \in Seeds, jitter \in TimerJitters : ChartTick(seed, jitter, 0)

SpecFallback == InitFallback /\ [][NextFallback]_vars

----------------------------------------------------------------------------
(* The outer loop of initializeChartData, pass by pass, from any price the *)
(* clamp lets through: the price a long run of ticks can have brought the  *)
(* bootstrap to.                                                           *)

\* the price the next historical candle opens at (cents)
BootInputs == {7500, 7600, 15000, 29900, 30000}

InitBoot ==
    /\ historySize = CHART_HISTORY_SIZE
    /\ now = StartTime
    /\ chartData = << >>
    /\ currentCandle = NoCandle
    /\ candleStartTime = NoTime
    /\ lastPrice \in BootInputs
    /\ currentTrend \in {0 - 1, 1}
    /\ trendStrength \in {StrengthOf(0), StrengthOf(999)}
    /\ tickCount = 0
    /\ stockSymbols = << >>
    /\ tableElements = << >>
    /\ tableUpdateQueue = << >>
    /\ tableSent = 0
    /\ homepageData = NoHomepage
    /\ stockUpdateInterval = NoTimer
    /\ broadcastInterval = NoTimer
    /\ tableUpdateInterval = NoTimer
    /\ homepageUpdateInterval = NoTimer
    /\ chartUpdateInterval = NoTimer
    /\ timers = {}
    /\ connectedClients = 0
    /\ sockets = {}
    /\ clientChartStatus = NoStatus
    /\ closing = FALSE
    /\ event = [kind |-> "start", client |-> 0, clients |-> 0, flagged |-> {},
                lost |-> 0]
    /\ outbox = NoMessages
    /\ delivered = [c \in Clients |-> 0]
    /\ response = NoResponse
    /\ priceRun = NoRun
    /\ indexRun = NoIndexRun

\* one pass of the loop: the ticks of a candle, its wick, the push, the
\* occasional change of trend
BootPass(seed) ==
    LET left == candlesCount - Len(chartData)
        b == BootCandles(1,
                         [chartData |-> chartData, price |-> lastPrice,
                          trend |-> currentTrend, strength |-> trendStrength,
                          k |-> 1],
                         now - (left - 1) * CHART_CANDLE_DURATION, seed)
    IN  /\ currentCandle = NoCandle
        /\ left > 0
        /\ SetChart([Chart EXCEPT !.chartData = b.chartData,
                                  !.lastPrice = b.price,
                                  !.currentTrend = b.trend,
                                  !.trendStrength = b.strength])
        /\ event' = Seen("bootstrap", 0)
        /\ UNCHANGED <<historySize, now, dataVars, timerVars, clientVars, closing,
                       outbox, delivered, response, priceRun, indexRun>>

\* after the loop: initializeCandle()
BootEnd ==
    /\ currentCandle = NoCandle
    /\ Len(chartData) = candlesCount
    /\ SetChart(initializeCandle(Chart, now))
    /\ event' = Seen("bootstrap", 0)
    /\ UNCHANGED <<historySize, now, dataVars, timerVars, clientVars, closing,
                   outbox, delivered, response, priceRun, indexRun>>

NextBoot ==
    \/ \E seed \in Seeds : BootPass(seed)
    \/ BootEnd

SpecBoot == InitBoot /\ [][NextBoot]_vars

----------------------------------------------------------------------------
(* The table producer, started with initializeTableElements already run    *)
(* for any TABLE_ELEMENTS up to MaxTableElements, with subscribers joining *)
(* and leaving.                                                            *)

InitTable ==
    /\ historySize = CHART_HISTORY_SIZE
    /\ priceRun = NoRun
    /\ indexRun = NoIndexRun
    /\ InitPriceState
    /\ now = StartTime
    /\ chartData = << >>
    /\ currentCandle = NoCandle
    /\ candleStartTime = NoTime
    /\ tickCount = 0
    /\ stockSymbols = << >>
    /\ \E n \in 1..MaxTableElements : tableElements = [i \in 1..n |-> i]
    /\ tableUpdateQueue = tableElements
    /\ tableSent = 0
    /\ homepageData = NoHomepage
    /\ stockUpdateInterval = NoTimer
    /\ broadcastInterval = NoTimer
    /\ tableUpdateInterval = NoTimer
    /\ homepageUpdateInterval = NoTimer
    /\ chartUpdateInterval = NoTimer
    /\ timers = {}
    /\ sockets \in (SUBSET Clients) \ {{}}
    /\ connectedClients = Cardinality(sockets)
    /\ clientChartStatus = [s \in sockets |-> TRUE]
    /\ closing = FALSE
    /\ event = [kind |-> "start", client |-> 0, clients |-> 0, flagged |-> {},
                lost |-> 0]
    /\ outbox = NoMessages
    /\ delivered = [c \in Clients |-> 0]
    /\ response = NoResponse

NextTable ==
    \/ \E seed \in Seeds : StartUpdates(seed)
    \/ TableTick
    \/ \E c \in Clients : Connection(c, 0, 1)
    \/ \E c \in Clients : Disconnect(c)

SpecTable == InitTable /\ [][NextTable]_vars

----------------------------------------------------------------------------
(* getRandomIndices(count, max), one pass of its loop at a time.           *)

\* faulty variant: the loop runs until count indices are held
ActualCount_IsCount(count, max) == count

\* Math.min(count, max)
ActualCount(count, max) == Min2(count, max)

\* the values of Math.floor(Math.random() * max)
IndexDraws(max) == IF max = 0 THEN {0} ELSE 0..(max - 1)

InitIndices ==
    /\ historySize = CHART_HISTORY_SIZE
    /\ priceRun = NoRun
    /\ \E count \in 0..MaxIndexCount, max \in 0..MaxIndexRange :
           indexRun = [count |-> count, max |-> max, indices |-> {},
                       done |-> FALSE]
    /\ Init0

\* one pass of the while loop: indices.add(Math.floor(Math.random() * max))
AddIndex(i) ==
    /\ ~indexRun.done
    /\ Cardinality(indexRun.indices)
           < ActualCount(indexRun.count, indexRun.max)
    /\ i \in IndexDraws(indexRun.max)
    /\ indexRun' = [indexRun EXCEPT !.indices = @ \cup {i}]
    /\ UNCHANGED <<historySize, now, chartVars, dataVars, timerVars, clientVars,
                   closing, event, outbox, delivered, response, priceRun>>

\* the loop condition fails: return indices
ReturnIndices ==
    /\ ~indexRun.done
    /\ ~(Cardinality(indexRun.indices)
             < ActualCount(indexRun.count, indexRun.max))
    /\ indexRun' = [indexRun EXCEPT !.done = TRUE]
    /\ UNCHANGED <<historySize, now, chartVars, dataVars, timerVars, clientVars,
                   closing, event, outbox, delivered, response, priceRun>>

NextIndices ==
    \/ \E i \in 0..MaxIndexRange : AddIndex(i)
    \/ ReturnIndices

\* a draw that the Set does not hold yet comes up in the end
SpecIndices == InitIndices /\ [][NextIndices]_vars /\ WF_vars(NextIndices)

----------------------------------------------------------------------------
(* Properties.                                                             *)

\* high >= max(open, close) and low <= min(open, close)
OHLC(c) == c.high >= Max2(c.open, c.close) /\ c.low <= Min2(c.open, c.close)

\* m carries the whole chart: the history, oldest first, then the open candle
IsFullSnapshot(m) ==
    /\ Len(m.data) = Len(chartData) + (IF currentCandle # NoCandle THEN 1 ELSE 0)
    /\ \A i \in 1..Len(chartData) : m.data[i] = chartData[i]
    /\ currentCandle # NoCandle => m.data[Len(m.data)] = currentCandle

\* m carries exactly one candle
IsIncrement(m) == Len(m.data) = 1

\* the i-th message the last handler sent to c is the first chart_update of
\* c's connection
IsFirstMessage(c, i) == delivered[c] = 0 /\ i = 1

\* the last handler was a broadcast that took its fallback branch for c
FallbackTaken(c) == event.kind = "chart" /\ c \notin event.flagged

\* the last handler was c's own get_chart request
OwnGetChart(c) == event.kind = "get_chart" /\ event.client = c

\* C1, as claimed: the first chart_update message delivered to a subscriber
\* is a full snapshot, and every later one, when the broadcast fallback is
\* not taken, is a single-candle increment.
C1_LaterMessagesAreIncrements ==
    \A c \in Clients : \A i \in 1..Len(outbox[c]) :
        IF IsFirstMessage(c, i) THEN IsFullSnapshot(outbox[c][i])
        ELSE ~FallbackTaken(c) => IsIncrement(outbox[c][i])

\* C1, amended: the first chart_update message delivered to a subscriber is
\* a full snapshot; every later one is a full snapshot when it answers the
\* subscriber's own get_chart, and otherwise (the broadcast fallback not
\* taken) a single-candle increment.
C1_FirstFullThenIncrementOrReply ==
    \A c \in Clients : \A i \in 1..Len(outbox[c]) :
        IF IsFirstMessage(c, i) \/ OwnGetChart(c)
        THEN IsFullSnapshot(outbox[c][i])
        ELSE ~FallbackTaken(c) => IsIncrement(outbox[c][i])

\* a subscriber that already got its snapshot and increments asks for the
\* chart and is sent more than one candle
C1_Witness ==
    \E c \in Clients :
        /\ OwnGetChart(c)
        /\ delivered[c] = 2
        /\ Len(outbox[c]) = 1
        /\ Len(outbox[c][1].data) > 1

\* C2: every candle of chartData, from the bootstrap or from a live
\* completion, has high >= max(open, close) and low <= min(open, close).
C2_HistoryCandlesValid ==
    \A i \in 1..Len(chartData) : OHLC(chartData[i])

\* the history holds a bootstrap candle with a wick above its body and a
\* candle completed by the tick that just ran
C2_Witness ==
    /\ event.kind = "chart"
    /\ tickCount = 0
    /\ Len(chartData) >= 2
    /\ chartData[Len(chartData)].time >= UnixSeconds(StartTime)
    /\ \E i \in 1..Len(chartData) :
           chartData[i].high > Max2(chartData[i].open, chartData[i].close)

\* a completion that overflows the capacity removes the head of chartData,
\* whose time is the smallest
EvictsOldest ==
    (/\ chartData # << >>
     /\ chartData' # << >>
     /\ chartData' # chartData
     /\ Len(chartData) + 1 > historySize)
    => /\ chartData' = Append(Tail(chartData), chartData'[Len(chartData')])
       /\ \A i \in 1..Len(chartData) : chartData[1].time <= chartData[i].time

\* C3, as claimed: for any capacity, chartData never holds more candles than
\* the capacity, and a completion that overflows removes the oldest candle.
C3_HistoryWithinCapacity ==
    /\ [](Len(chartData) <= historySize)
    /\ [][EvictsOldest]_vars

\* C4: after the disconnect that takes the count from 1 to 0 the history is
\* empty, no candle is open, trend and strength are 0, lastPrice is the base
\* price and the registry is empty; the next connection is answered with a
\* chart bootstrapped at that connection: candlesCount candles that start
\* from the base price and are dated back from the connection time, then the
\* candle opened at the connection.
C4_DiscardedThenFreshBootstrap ==
    /\ (event.kind = "disconnect" /\ event.clients = 1) =>
           /\ chartData = << >>
           /\ currentCandle = NoCandle
           /\ candleStartTime = NoTime
           /\ currentTrend = 0
           /\ trendStrength = 0
           /\ lastPrice = CHART_BASE_PRICE
           /\ DOMAIN clientChartStatus = {}
    /\ (event.kind = "connection" /\ event.clients = 0) =>
           /\ Len(outbox[event.client]) = 1
           /\ IsFullSnapshot(outbox[event.client][1])
           /\ Len(outbox[event.client][1].data) = candlesCount + 1
           /\ chartData[1].open = CHART_BASE_PRICE
           /\ \A i \in 1..candlesCount :
                  chartData[i].time =
                      UnixSeconds(now - (candlesCount - i + 1) * CHART_CANDLE_DURATION)
           /\ currentCandle.time = UnixSeconds(now)
           /\ candleStartTime = now
           /\ currentCandle.open = chartData[candlesCount].close

\* a first connection made after an earlier session ticked and ended
C4_Witness ==
    /\ event.kind = "connection"
    /\ event.clients = 0
    /\ now = StartTime + CHART_UPDATE_INTERVAL + 1500

AllTimersNull ==
    /\ stockUpdateInterval = NoTimer
    /\ broadcastInterval = NoTimer
    /\ tableUpdateInterval = NoTimer
    /\ homepageUpdateInterval = NoTimer
    /\ chartUpdateInterval = NoTimer

\* C5: whenever the subscriber count is zero no producer timer is scheduled
\* and the history, the open candle, the stock list, the table elements, the
\* homepage data and the registry are empty; no chart tick ever ran with a
\* count of zero.
C5_IdleHoldsNothing ==
    /\ connectedClients = 0 =>
           /\ timers = {}
           /\ AllTimersNull
           /\ chartData = << >>
           /\ currentCandle = NoCandle
           /\ stockSymbols = << >>
           /\ tableElements = << >>
           /\ tableUpdateQueue = << >>
           /\ homepageData = NoHomepage
           /\ DOMAIN clientChartStatus = {}
    /\ event.kind = "chart" => event.clients > 0

\* the last subscriber has just left a session whose chart timer had fired
C5_Witness ==
    /\ connectedClients = 0
    /\ event.kind = "disconnect"
    /\ event.clients = 1
    /\ now = StartTime + CHART_UPDATE_INTERVAL

\* the last handler sent c a message built by sendInitialChartData
SentFullChart(c) ==
    \/ event.kind \in {"connection", "get_chart"} /\ event.client = c
    \/ FallbackTaken(c) /\ c \in sockets

\* C6: every full snapshot sent (on connection, on get_chart, by the
\* broadcast fallback) is the history in oldest-first order followed by the
\* in-progress candle as its last element, so it has len(History) + 1
\* candles whenever a candle is open.
C6_SnapshotIsHistoryThenOpenCandle ==
    \A c \in Clients : SentFullChart(c) =>
        /\ Len(outbox[c]) = 1
        /\ LET data == outbox[c][1].data
           IN  /\ \A i \in 1..Len(chartData) : data[i] = chartData[i]
               /\ \A i \in 1..Len(data), j \in 1..Len(data) :
                      i < j => data[i].time <= data[j].time
               /\ currentCandle # NoCandle =>
                      /\ Len(data) = Len(chartData) + 1
                      /\ data[Len(data)] = currentCandle
               /\ currentCandle = NoCandle => Len(data) = Len(chartData)

\* a get_chart answered while the open candle has ingested a tick
C6_Witness ==
    /\ event.kind = "get_chart"
    /\ tickCount >= 1
    /\ Len(outbox[event.client]) = 1
    /\ Len(chartData) >= 2

\* C7: on every broadcast cycle each connected subscriber whose flag is set
\* is sent exactly one chart message, holding exactly one candle: the
\* current candle after the tick of that cycle.
C7_FlaggedGetTheCurrentCandle ==
    event.kind = "chart" =>
        \A c \in sockets \cap event.flagged :
            /\ Len(outbox[c]) = 1
            /\ outbox[c][1].event = "chart_update"
            /\ outbox[c][1].data = << currentCandle >>

\* a cycle that completed a candle, with two flagged subscribers
C7_Witness ==
    /\ event.kind = "chart"
    /\ tickCount = 0
    /\ Cardinality(sockets \cap event.flagged) >= 2

\* C8: the tick, the aggregation and the broadcast of a cycle are one step;
\* every candle of every delivered message satisfies low <= min(open, close)
\* and high >= max(open, close), and every message is the chart, or the
\* current candle, as the handler that sent it left them.
C8_MessagesShowWholeCycles ==
    \A c \in Clients : \A i \in 1..Len(outbox[c]) :
        /\ \A k \in 1..Len(outbox[c][i].data) : OHLC(outbox[c][i].data[k])
        /\ \/ outbox[c][i].data = << currentCandle >>
           \/ IsFullSnapshot(outbox[c][i])

\* an increment whose candle has moved off its open in both directions
C8_Witness ==
    \E c \in Clients :
        /\ event.kind = "chart"
        /\ Len(outbox[c]) = 1
        /\ Len(outbox[c][1].data) = 1
        /\ outbox[c][1].data[1].high > outbox[c][1].data[1].close
        /\ outbox[c][1].data[1].low < outbox[c][1].data[1].open

\* C9: the registry holds a record for a connection exactly from its
\* connection to its disconnect: its keys are the open sockets, their number
\* is connectedClients, which is never negative.
C9_RegistryIsTheOpenSockets ==
    /\ DOMAIN clientChartStatus = sockets
    /\ \A c \in sockets : clientChartStatus[c]
    /\ Cardinality(sockets) = connectedClients
    /\ connectedClients >= 0

\* one of two subscribers has left
C9_Witness ==
    /\ event.kind = "disconnect"
    /\ event.clients = 2
    /\ connectedClients = 1

lifecycleVars == <<chartVars, dataVars, timerVars>>

AllTimersScheduled ==
    /\ \A fn \in Producers : Cardinality({tm \in timers : tm.fn = fn}) = 1
    /\ [fn |-> "stock", id |-> stockUpdateInterval] \in timers
    /\ [fn |-> "broadcast", id |-> broadcastInterval] \in timers
    /\ [fn |-> "table", id |-> tableUpdateInterval] \in timers
    /\ [fn |-> "homepage", id |-> homepageUpdateInterval] \in timers
    /\ [fn |-> "chart", id |-> chartUpdateInterval] \in timers

Discarded ==
    /\ chartData = << >>
    /\ currentCandle = NoCandle
    /\ stockSymbols = << >>
    /\ tableElements = << >>
    /\ homepageData = NoHomepage

\* what a step does to the lifecycle, by the change of the subscriber count
LifecycleStep ==
    /\ (connectedClients = 0 /\ connectedClients' = 1) =>
           /\ chartData = << >> /\ Len(chartData') = candlesCount
           /\ timers = {} /\ AllTimersScheduled'
    /\ (connectedClients > 0 /\ connectedClients' = connectedClients + 1) =>
           UNCHANGED lifecycleVars
    /\ (connectedClients = 1 /\ connectedClients' = 0) =>
           timers' = {} /\ AllTimersNull' /\ Discarded'
    /\ (connectedClients > 1 /\ connectedClients' = connectedClients - 1) =>
           UNCHANGED lifecycleVars
    /\ (chartData = << >> /\ chartData' # << >>) =>
           connectedClients = 0 /\ connectedClients' = 1
    /\ (timers' \ timers # {}) =>
           connectedClients = 0 /\ connectedClients' = 1
    /\ (chartData # << >> /\ chartData' = << >>) =>
           connectedClients = 1 /\ connectedClients' = 0
    /\ (timers \ timers' # {} /\ closing' = closing) =>
           connectedClients = 1 /\ connectedClients' = 0

\* C10: bootstrap and producer start happen exactly on a connection that
\* takes the count from 0 to 1, producer stop and state discard exactly on a
\* disconnect that takes it from 1 to 0 (a shutdown signal stops the
\* producers but discards nothing); no other connection or disconnect
\* bootstraps, starts, stops or clears anything.
C10_LifecycleFollowsZeroCrossings == [][LifecycleStep]_vars

\* a second subscriber has connected to a running session
C10_Witness ==
    /\ event.kind = "connection"
    /\ event.clients = 1
    /\ connectedClients = 2
    /\ timers # {}

\* the last handler answered a synchronous pull
PullAnswered == event.kind \in {"http_chart", "get_chart"}

\* C11: the answer to GET /chart, and the answer to get_chart, carry the
\* candle sequence of a full snapshot of the state they are made in (the
\* history, oldest first, then the open candle if there is one); answering
\* leaves the history, the open candle, the price, the trend, the timers and
\* the set of registered subscribers as they were.
C11_PullIsSnapshotAndChangesNothing ==
    /\ [](event.kind = "http_chart" =>
              /\ IsFullSnapshot(response)
              /\ response.count = Len(response.data))
    /\ [](event.kind = "get_chart" =>
              /\ Len(outbox[event.client]) = 1
              /\ IsFullSnapshot(outbox[event.client][1]))
    /\ [][PullAnswered' =>
              /\ UNCHANGED <<chartVars, timerVars, sockets, connectedClients>>
              /\ DOMAIN clientChartStatus' = DOMAIN clientChartStatus]_vars

\* GET /chart answered while a subscriber is connected and the open candle
\* has ingested a tick
C11_Witness ==
    /\ event.kind = "http_chart"
    /\ connectedClients >= 1
    /\ tickCount >= 1
    /\ response.count = candlesCount + 1

\* the chart globals after a cycle are what updateChartData makes of them
CycleRan ==
    \E seed \in Seeds :
        Chart' = updateChartData(Chart, now', historySize, seed)

StopCalled ==
    \/ event.kind = "signal"
    \/ event.kind = "disconnect" /\ event.clients = 1

\* C13: after stopAllUpdates no producer is scheduled and every timer
\* variable is null; called when nothing is scheduled it changes no timer and
\* no timer variable, so a second call in a row is a no-op.
C13_StopIsIdempotent ==
    /\ [](StopCalled => timers = {} /\ AllTimersNull)
    /\ [][(StopCalled' /\ timers = {} /\ AllTimersNull) =>
              UNCHANGED timerVars]_vars

\* the last subscriber leaves after a shutdown signal has stopped the
\* producers: stopAllUpdates runs a second time
C13_Witness ==
    /\ event.kind = "disconnect"
    /\ event.clients = 1
    /\ closing
    /\ timers = {}

\* C14: the connection that activates the server finds, before its snapshot
\* is sent, candlesCount bootstrap candles in the history (the first opens
\* at the base price, each next one at the close before it) and an open
\* candle; its first message holds candlesCount + 1 candles, the last of
\* them the open candle, and is never empty.
C14_FirstSnapshotHasBootstrapAndOpenCandle ==
    (event.kind = "connection" /\ event.clients = 0) =>
        LET m == outbox[event.client]
        IN  /\ Len(chartData) = candlesCount
            /\ chartData[1].open = CHART_BASE_PRICE
            /\ \A i \in 1..(candlesCount - 1) :
                   chartData[i + 1].open = chartData[i].close
            /\ currentCandle # NoCandle
            /\ delivered[event.client] = 0
            /\ Len(m) = 1
            /\ m[1].data # << >>
            /\ Len(m[1].data) = candlesCount + 1
            /\ m[1].data[candlesCount + 1] = currentCandle

\* the very first connection of the process
C14_Witness ==
    /\ event.kind = "connection"
    /\ event.clients = 0
    /\ now = StartTime
    /\ Len(outbox[event.client][1].data) = candlesCount + 1

\* what a message carries besides its candles
Envelope(m) == [f \in DOMAIN m \ {"data"} |-> m[f]]

\* C15, as claimed: every chart message carries a type discriminator: a
\* full snapshot and an incremental update differ in what they carry besides
\* their candles.
C15_KindsDifferBesidesTheCandles ==
    [][\A c \in Clients, d \in Clients :
         (/\ SentFullChart(c)
          /\ outbox[c] # << >>
          /\ event'.kind = "chart"
          /\ d \in event'.flagged
          /\ outbox'[d] # << >>)
         => Envelope(outbox[c][1]) # Envelope(outbox'[d][1])]_vars

\* CONFIG.CHART_CANDLE_DURATION / CONFIG.CHART_UPDATE_INTERVAL
TicksPerCandle == CHART_CANDLE_DURATION \div CHART_UPDATE_INTERVAL

\* the chart timer fires, and every tick of the open candle, this one
\* included, came exactly one period after the one before
TickOnSchedule ==
    /\ event'.kind = "chart"
    /\ now' # now
    /\ currentCandle # NoCandle
    /\ now' - candleStartTime = (tickCount + 1) * CHART_UPDATE_INTERVAL

\* C16: when the candle duration is a multiple of the tick period and the
\* ticks come without drift, a candle is completed by its
\* (duration / period)-th tick and by no earlier one, and the completion
\* appends exactly one candle, the completed one, to the history (dropping
\* the head when the capacity is exceeded).
C16_ExactTicksPerCandle ==
    [][(CHART_CANDLE_DURATION % CHART_UPDATE_INTERVAL = 0 /\ TickOnSchedule) =>
         IF tickCount + 1 = TicksPerCandle
         THEN /\ candleStartTime' = now'
              /\ tickCount' = 0
              /\ chartData' # << >>
              /\ chartData'[Len(chartData')].time = currentCandle.time
              /\ \/ chartData' = Append(chartData, chartData'[Len(chartData')])
                 \/ chartData' = Append(Tail(chartData),
                                        chartData'[Len(chartData')])
         ELSE /\ tickCount + 1 < TicksPerCandle
              /\ candleStartTime' = candleStartTime
              /\ tickCount' = tickCount + 1
              /\ chartData' = chartData]_vars

\* a candle opened at the first connection has just been completed by ticks
\* that came without drift
C16_Witness ==
    /\ event.kind = "chart"
    /\ tickCount = 0
    /\ candleStartTime = now
    /\ now = StartTime + CHART_CANDLE_DURATION
    /\ CHART_CANDLE_DURATION % CHART_UPDATE_INTERVAL = 0
    /\ chartData[Len(chartData)].time = UnixSeconds(StartTime)

\* C17: whatever the input price, the trend state and the draws, the price
\* generateRealisticPrice returns is a whole number of cents between half
\* the base price and twice the base price.
C17_PriceWithinClamp ==
    priceRun.calls >= 1 =>
        /\ lastPrice \in Int
        /\ 2 * lastPrice >= CHART_BASE_PRICE
        /\ lastPrice <= 2 * CHART_BASE_PRICE

\* under the shipped CONFIG, an input above the range comes back as twice
\* the base price
C17_Witness ==
    /\ priceRun.calls = 1
    /\ priceRun.volatility = CHART_VOLATILITY
    /\ priceRun.input > 2 * CHART_BASE_PRICE
    /\ lastPrice = 2 * CHART_BASE_PRICE

\* C18: with volatility 0 and reversion factor 0, generateRealisticPrice
\* called on the base price, and then on its own result, returns the base
\* price every time, whatever the draws and the trend they set.
C18_DegeneratePriceIsFixed ==
    (/\ priceRun.volatility = 0
     /\ priceRun.reversion = 0
     /\ priceRun.input = CHART_BASE_PRICE)
    => lastPrice = CHART_BASE_PRICE

\* three calls in a row under that CONFIG, the draws having set a trend
C18_Witness ==
    /\ priceRun.volatility = 0
    /\ priceRun.reversion = 0
    /\ priceRun.input = CHART_BASE_PRICE
    /\ priceRun.calls >= 3
    /\ currentTrend # 0
    /\ trendStrength > 0
    /\ lastPrice = CHART_BASE_PRICE

\* C20: a tick that does not complete the open candle leaves its open as it
\* was, its high no lower and its low no higher, and sets its close to the
\* tick's price; a tick that completes it files it in the history with the
\* same open, a high no lower, a low no higher and the tick's price as close.
C20_OpenFixedHighLowWidenCloseFollows ==
    [][(event'.kind = "chart" /\ now' # now /\ currentCandle # NoCandle) =>
         LET after == IF candleStartTime' = candleStartTime THEN currentCandle'
                      ELSE chartData'[Len(chartData')]
         IN  /\ after.time = currentCandle.time
             /\ after.open = currentCandle.open
             /\ after.high >= currentCandle.high
             /\ after.low <= currentCandle.low
             /\ after.close = lastPrice']_vars

\* a candle has been completed by its second tick, after a first tick that
\* took it above its open and above where the second one closed it
C20_Witness ==
    /\ event.kind = "chart"
    /\ tickCount = 0
    /\ chartData # << >>
    /\ LET done == chartData[Len(chartData)]
       IN  /\ done.time >= UnixSeconds(StartTime)
           /\ done.high > done.open
           /\ done.high > done.close
           /\ done.close = lastPrice

\* a step of the series of calls: one more call has been made
PriceCalled == priceRun'.calls = priceRun.calls + 1

\* the first draw of the call just made was below TREND_CHANGE_PROBABILITY
ReRolledNow ==
    Rand(priceRun'.seed, priceRun'.k) < TREND_CHANGE_PROBABILITY

\* C28, as claimed: a call of updateMarketTrend either re-rolls, and then the
\* trend is the drawn one of -1, 0, 1 and the strength after the call is the
\* drawn value 0.3 + 0.5 * draw, not decayed; or it keeps the trend and
\* multiplies the strength by 0.98.
C28_ReRollOrDecay ==
    [][PriceCalled =>
         IF ReRolledNow
         THEN /\ currentTrend' \in {0 - 1, 0, 1}
              /\ currentTrend' =
                     ((Rand(priceRun'.seed, priceRun'.k + 1) * 3) \div 1000) - 1
              /\ trendStrength' =
                     3000 + 5 * Rand(priceRun'.seed, priceRun'.k + 2)
         ELSE /\ currentTrend' = currentTrend
              /\ trendStrength' = (trendStrength * 98) \div 100]_vars

\* the call just made left the trend neutral and drew 0.5 for the random
\* walk, so that the random component is zero
NeutralZeroDraw ==
    /\ currentTrend' = 0
    /\ Rand(priceRun'.seed,
            priceRun'.k + (IF ReRolledNow THEN 3 ELSE 1)) = 500

\* C29: with a neutral trend and a zero random component the price returned
\* is no higher than the input when the input is above the base price, no
\* lower when it is below, and the base price when it is the base price.
C29_ReversionPullsToBase ==
    [][(PriceCalled /\ NeutralZeroDraw) =>
         /\ lastPrice > CHART_BASE_PRICE => lastPrice' <= lastPrice
         /\ lastPrice < CHART_BASE_PRICE => lastPrice' >= lastPrice
         /\ lastPrice = CHART_BASE_PRICE => lastPrice' = CHART_BASE_PRICE]_vars

\* under the shipped CONFIG, half the base price comes back one cent higher
\* from a call with a neutral trend and a zero random component
C29_Witness ==
    /\ priceRun.calls = 1
    /\ priceRun.volatility = CHART_VOLATILITY
    /\ priceRun.seed = 3
    /\ priceRun.k = 1
    /\ currentTrend = 0
    /\ 2 * priceRun.input = CHART_BASE_PRICE
    /\ lastPrice = priceRun.input + 1

\* the last handler was a chart tick that completed a candle
JustCompleted == event.kind = "chart" /\ candleStartTime = now

\* C21: the tick that completes a candle leaves a new open candle whose
\* open, high, low and close are the completed candle's close; while a
\* subscriber is connected there is always an open candle.
C21_CompletionOpensNextAtClose ==
    /\ JustCompleted =>
           /\ chartData # << >>
           /\ currentCandle # NoCandle
           /\ currentCandle.open = chartData[Len(chartData)].close
           /\ currentCandle.high = chartData[Len(chartData)].close
           /\ currentCandle.low = chartData[Len(chartData)].close
           /\ currentCandle.close = chartData[Len(chartData)].close
           /\ currentCandle.time = UnixSeconds(now)
           /\ tickCount = 0
    /\ connectedClients > 0 => currentCandle # NoCandle

\* a candle that closed away from its open has just been completed
C21_Witness ==
    /\ JustCompleted
    /\ connectedClients >= 1
    /\ chartData[Len(chartData)].close # chartData[Len(chartData)].open
    /\ currentCandle.open = chartData[Len(chartData)].close

\* what a step may do to the history: nothing, fill it when it is empty,
\* append one candle, drop the head and append one candle, or empty it when
\* the last subscriber leaves
HistoryKept ==
    \/ chartData' = chartData
    \/ chartData = << >>
    \/ chartData' = << >> /\ connectedClients' = 0
    \/ /\ Len(chartData') = Len(chartData) + 1
       /\ \A i \in 1..Len(chartData) : chartData'[i] = chartData[i]
    \/ /\ Len(chartData') = Len(chartData)
       /\ \A i \in 1..(Len(chartData) - 1) : chartData'[i] = chartData[i + 1]

\* C22: a candle of the history keeps its time, open, high, low and close
\* through every tick, completion, broadcast and connection, until it is
\* evicted or the last subscriber leaves.
C22_HistoryEntriesNeverChange == [][HistoryKept]_vars

\* a get_chart answered after a completion: the history holds a bootstrap
\* candle and the candle completed since
C22_Witness ==
    /\ event.kind = "get_chart"
    /\ Len(chartData) >= 2
    /\ chartData[1].time < UnixSeconds(StartTime)
    /\ chartData[Len(chartData)].time >= UnixSeconds(StartTime)

\* C23: a tick completes the open candle exactly when the time since the
\* candle was opened is at least CHART_CANDLE_DURATION at that tick; the
\* history gets a candle only from such a tick, at most one per tick, and it
\* is the candle that was open.
C23_CompletionIffDurationElapsed ==
    [][/\ (event'.kind = "chart" /\ now' # now /\ currentCandle # NoCandle) =>
              /\ (candleStartTime' # candleStartTime)
                     <=> (now' - candleStartTime >= CHART_CANDLE_DURATION)
              /\ (candleStartTime' = candleStartTime) => chartData' = chartData
              /\ (candleStartTime' # candleStartTime) =>
                     /\ chartData' # << >>
                     /\ chartData'[Len(chartData')].time = currentCandle.time
                     /\ chartData'[Len(chartData')].open = currentCandle.open
                     /\ Len(chartData') <= Len(chartData) + 1
       /\ (chartData # << >> /\ chartData' # << >> /\ chartData' # chartData) =>
              (event'.kind = "chart" /\ now' # now)]_vars

\* a candle completed by a late second tick, 2300 ms after it was opened
C23_Witness ==
    /\ JustCompleted
    /\ now = StartTime + 2 * CHART_UPDATE_INTERVAL + 300
    /\ chartData[Len(chartData)].time = UnixSeconds(StartTime)

\* C27: the trend is always -1, 0 or 1 and the strength is always between 0
\* and 1; a tick that does not re-roll the trend leaves the strength no
\* higher than it was.
C27_TrendInRangeAndDecaying ==
    /\ [](/\ currentTrend \in {0 - 1, 0, 1}
          /\ trendStrength >= 0
          /\ trendStrength <= 10000)
    /\ [][\A seed \in Seeds :
            (/\ event'.kind = "chart"
             /\ now' # now
             /\ Rand(seed, 1) >= TREND_CHANGE_PROBABILITY
             /\ Chart' = updateChartData(Chart, now', historySize, seed))
            => trendStrength' <= trendStrength]_vars

\* after a tick the strength is positive and is no value a re-roll at that
\* tick leaves: the tick kept the trend and decayed the strength
C27_Witness ==
    /\ event.kind = "chart"
    /\ tickCount = 1
    /\ currentTrend # 0
    /\ trendStrength > 0
    /\ \A seed \in Seeds : \A k \in 1..Len(Tapes[seed]) :
           trendStrength # Decay(StrengthOf(Rand(seed, k)))

\* C30, as claimed: when a tick completes a candle, every subscriber that
\* was connected and flagged has been sent that candle with its final open,
\* high, low and close: in this cycle's messages, or before (the candle the
\* last cycle sent already had them).
C30_FinalCandleIsSent ==
    [][(/\ event'.kind = "chart"
        /\ now' # now
        /\ currentCandle # NoCandle
        /\ candleStartTime' # candleStartTime) =>
         \A c \in (sockets \cap event'.flagged) \ {event'.lost} :
             \/ \E i \in 1..Len(outbox'[c]) :
                    \E j \in 1..Len(outbox'[c][i].data) :
                        outbox'[c][i].data[j] = chartData'[Len(chartData')]
             \/ currentCandle = chartData'[Len(chartData')]]_vars

\* C24, as claimed: ingesting price p with no candle open leaves a candle
\* with open = high = low = close = p; with a candle open it sets close to
\* p, high to max(high, p) and low to min(low, p), and keeps open and time.
C24_IngestOpensFlatOrWidens ==
    [][event'.kind = "ingest" =>
         IF currentCandle = NoCandle
         THEN /\ currentCandle'.open = priceRun'.input
              /\ currentCandle'.high = priceRun'.input
              /\ currentCandle'.low = priceRun'.input
              /\ currentCandle'.close = priceRun'.input
         ELSE /\ currentCandle'.close = priceRun'.input
              /\ currentCandle'.high = Max2(currentCandle.high, priceRun'.input)
              /\ currentCandle'.low = Min2(currentCandle.low, priceRun'.input)
              /\ currentCandle'.open = currentCandle.open
              /\ currentCandle'.time = currentCandle.time]_vars

\* C26: whatever candle is open when completeCandle runs, the candle filed
\* in the history has high >= max(open, close) and low <= min(open, close);
\* its open, close and time are those of the open candle, its high is no
\* lower and its low no higher.
C26_RepairAtCompletion ==
    [][event'.kind = "complete" =>
         /\ chartData' # << >>
         /\ OHLC(chartData'[Len(chartData')])
         /\ chartData'[Len(chartData')].open = currentCandle.open
         /\ chartData'[Len(chartData')].close = currentCandle.close
         /\ chartData'[Len(chartData')].time = currentCandle.time
         /\ chartData'[Len(chartData')].high >= currentCandle.high
         /\ chartData'[Len(chartData')].low <= currentCandle.low]_vars

\* the first call completed the candle whose high was below its close: it
\* is filed with the high raised to the close
C26_Witness ==
    /\ event.kind = "complete"
    /\ priceRun.calls = 1
    /\ chartData[Len(chartData)] =
           [time |-> 8, open |-> 15000, high |-> 15050, low |-> 14900,
            close |-> 15050]

\* C25: a broadcast sends every socket without a flag the full chart and
\* every flagged one the open candle alone, one message each, and leaves a
\* flag set for every socket, so that the next broadcast sends increments.
C25_UnflaggedGetsSnapshotAndFlag ==
    event.kind = "chart" =>
        \A c \in sockets :
            /\ Len(outbox[c]) = 1
            /\ IF c \in event.flagged
               THEN /\ IsIncrement(outbox[c][1])
                    /\ outbox[c][1].data[1] = currentCandle
               ELSE IsFullSnapshot(outbox[c][1])
            /\ GetStatus(clientChartStatus, c)

\* a broadcast that served one socket by the fallback and another, flagged,
\* with an increment
C25_Witness ==
    /\ event.kind = "chart"
    /\ sockets = {1, 2}
    /\ event.flagged = {2}
    /\ Len(outbox[1][1].data) = Len(chartData) + 1
    /\ Len(outbox[2][1].data) = 1
    /\ GetStatus(clientChartStatus, 1)

\* the candles of the chart, oldest first: the history, then the open candle
Candles == FullChart(chartData, currentCandle)

\* C31: while a subscriber is connected, each candle of the chart, the open
\* candle included, opens at the close of the candle before it.
C31_OpenIsPreviousClose ==
    connectedClients > 0 =>
        \A i \in 1..(Len(Candles) - 1) : Candles[i + 1].open = Candles[i].close

\* the history is full and holds a bootstrap candle followed by a candle
\* completed live; the head of the bootstrap has been evicted
C31_Witness ==
    /\ event.kind = "chart"
    /\ connectedClients > 0
    /\ Len(chartData) = historySize
    /\ Len(chartData) >= 2
    /\ chartData[Len(chartData) - 1].time < UnixSeconds(StartTime)
    /\ chartData[Len(chartData)].time >= UnixSeconds(StartTime)
    /\ chartData[1].open # CHART_BASE_PRICE
    /\ chartData[Len(chartData)].close # chartData[Len(chartData)].open

\* C32: while a subscriber is connected, the times of the candles of the
\* chart, the open candle included, are strictly increasing.
C32_TimesStrictlyIncrease ==
    connectedClients > 0 =>
        \A i \in 1..(Len(Candles) - 1) : Candles[i].time < Candles[i + 1].time

\* two late ticks: the candle opened at second 8 is completed 2600 ms later
\* and the next one is stamped second 10, not 10.6
C32_Witness ==
    /\ JustCompleted
    /\ now = StartTime + 2 * CHART_UPDATE_INTERVAL + 600
    /\ currentCandle.time = chartData[Len(chartData)].time + 2

\* C33: while a subscriber is connected a candle is open and its close is
\* lastPrice; a candle is open whenever the chart timer is scheduled, and
\* every broadcast has sent each socket a message.
C33_OpenCandleClosesAtLastPrice ==
    /\ connectedClients > 0 =>
           /\ currentCandle # NoCandle
           /\ currentCandle.close = lastPrice
    /\ (\E tm \in timers : tm.fn = "chart") => currentCandle # NoCandle
    /\ event.kind = "chart" =>
           \A c \in sockets : Len(outbox[c]) >= 1

\* two subscribers, after a tick that moved the open candle off its open
C33_Witness ==
    /\ event.kind = "chart"
    /\ tickCount = 1
    /\ connectedClients = 2
    /\ currentCandle.close = lastPrice
    /\ currentCandle.close # currentCandle.open

\* C34: every open socket has its flag set in every state, so every
\* broadcast starts with all of them flagged and sends only increments; a
\* message of more than one candle is sent only by a connection or by a
\* get_chart, and only to the socket that connected or asked.
C34_FallbackNeverTaken ==
    /\ \A c \in sockets : GetStatus(clientChartStatus, c)
    /\ event.kind = "chart" =>
           /\ sockets \subseteq event.flagged
           /\ \A c \in Clients : \A i \in 1..Len(outbox[c]) :
                  Len(outbox[c][i].data) = 1
    /\ \A c \in Clients : \A i \in 1..Len(outbox[c]) :
           Len(outbox[c][i].data) > 1 =>
               /\ event.kind \in {"connection", "get_chart"}
               /\ event.client = c

\* the first broadcast after the second subscriber joined: its only earlier
\* message is the snapshot of its connection, and it is sent an increment
C34_Witness ==
    /\ event.kind = "chart"
    /\ sockets = {1, 2}
    /\ event.flagged = {1, 2}
    /\ delivered[2] = 1
    /\ delivered[1] = 2
    /\ Len(outbox[2][1].data) = 1

\* C35: when no shutdown signal has been handled, the five timer variables
\* are all null or all set; they are set exactly when connectedClients > 0;
\* and each producer has at most one timer alive, the one its variable holds.
C35_TimersFollowSubscriberCount ==
    ~closing =>
        /\ AllTimersNull \/ AllTimersScheduled
        /\ AllTimersScheduled <=> connectedClients > 0
        /\ connectedClients = 0 => timers = {}
        /\ \A fn \in Producers : Cardinality({tm \in timers : tm.fn = fn}) <= 1

\* a second session: the timers of the first were cleared, those of the
\* second are scheduled
C35_Witness ==
    /\ ~closing
    /\ event.kind = "connection"
    /\ event.clients = 0
    /\ now > StartTime
    /\ AllTimersScheduled
    /\ Cardinality(timers) = 5

\* C36: a connection made while a subscriber is connected, and a disconnect
\* that leaves one connected, change the count by one and the socket and
\* registry record of that subscriber only: the history, the open candle,
\* its start time, lastPrice, the trend state and the timers stay as they
\* are.
C36_JoinAndLeaveTouchOnlyOwnRecord ==
    [][(/\ connectedClients >= 1
        /\ connectedClients' >= 1
        /\ connectedClients' # connectedClients) =>
         /\ event'.kind \in {"connection", "disconnect"}
         /\ UNCHANGED <<chartVars, timerVars>>
         /\ \/ connectedClients' = connectedClients + 1
            \/ connectedClients' = connectedClients - 1
         /\ \A s \in Clients \ {event'.client} :
                /\ (s \in sockets') <=> (s \in sockets)
                /\ GetStatus(clientChartStatus', s)
                       <=> GetStatus(clientChartStatus, s)]_vars

\* one of two subscribers has left after a tick; the chart and the timers
\* are those of the session
C36_Witness ==
    /\ event.kind = "disconnect"
    /\ event.clients = 2
    /\ connectedClients = 1
    /\ tickCount = 1
    /\ AllTimersScheduled
    /\ chartData # << >>

\* the price is within the clamp of generateRealisticPrice
InClamp(x) == x >= CHART_BASE_PRICE \div 2 /\ x <= CHART_BASE_PRICE * 2

\* C37, as claimed: the open, high, low and close of every candle of the
\* history and of the open candle are within [base * 0.5, base * 2], the
\* bootstrap candles with their wicks included.
C37_EveryCandleWithinClamp ==
    \A i \in 1..Len(Candles) :
        /\ InClamp(Candles[i].open)
        /\ InClamp(Candles[i].high)
        /\ InClamp(Candles[i].low)
        /\ InClamp(Candles[i].close)

\* a step of the table producer, in the runs of the table: the table timer
\* is scheduled, and the subscriber count and the timers stay
TableStep ==
    /\ \E tm \in timers : tm.fn = "table"
    /\ connectedClients' = connectedClients
    /\ timers' = timers
    /\ tableElements # << >>

\* C38: while the server is active, each cycle of the table timer emits one
\* element, never undefined: the first element after the queue is created,
\* then the element after the one emitted before, and the first again after
\* the last.
C38_TableEmitsInOrderCyclically ==
    [][TableStep =>
         /\ tableSent' # Undefined
         /\ tableSent' \in 1..Len(tableElements)
         /\ tableElements[tableSent'] = tableSent'
         /\ tableSent' = (tableSent % Len(tableElements)) + 1
         /\ tableElements' = tableElements]_vars

\* the last of three elements has been emitted and the queue is empty: the
\* next cycle refills it
C38_Witness ==
    /\ Len(tableElements) = 3
    /\ tableSent = 3
    /\ tableUpdateQueue = << >>
    /\ connectedClients = 2

\* C39: getRandomIndices(count, max) returns, for every count >= 0 and
\* max >= 0, and what it returns is a set of min(count, max) distinct
\* integers, each at least 0 and below max.
C39_IndicesTerminateWithMinCountMax ==
    /\ <>(indexRun.done)
    /\ [](indexRun.done =>
             /\ Cardinality(indexRun.indices)
                    = Min2(indexRun.count, indexRun.max)
             /\ \A i \in indexRun.indices : i >= 0 /\ i < indexRun.max)

\* a call that asked for more indices than there are has returned them all
C39_Witness ==
    /\ indexRun.done
    /\ indexRun.count = 3
    /\ indexRun.max = 2
    /\ indexRun.indices = {0, 1}

====
